---- MODULE Spec2Model ----
(***************************************************************************)
(* Model of fix_tree_origin.py: a linear batch script that recentres the   *)
(* mesh objects of a loaded scene on the world origin (X/Y midpoint of the *)
(* union bounding box, bottom face at Z = 0), bakes the transforms,        *)
(* re-measures the bounds, exports the selection and copies textures.      *)
(*                                                                         *)
(* Numbers.  Coordinates are exact rationals stored as integers in units   *)
(* of 1/4 (so 0.5 is 2 and the point (10, 5, 2) is <<40, 20, 8>>).  The    *)
(* loaded scenes use even values only, which makes the halving of line     *)
(* 40-41 exact; floating-point rounding is outside the model.  The floats  *)
(* of lines 21-47 can be infinite or NaN and are records [k, v].           *)
(*                                                                         *)
(* Objects.  An object is [type, verts, basis, location, select]: verts is *)
(* the mesh data in local coordinates, basis the rotation/scale part of    *)
(* its transform, location its translation.  Objects have no parent, so    *)
(* matrix_world maps v to basis.v + location.                              *)
(***************************************************************************)
EXTENDS Integers, Sequences, FiniteSets, TLC

VARIABLES
    pc,             \* position of the script
    objects,        \* bpy.data.objects after open_mainfile (mutated in place)
    loaded,         \* history: the objects exactly as loaded
    mesh_objects,   \* line 14: indices into objects, in order
    i,              \* index of the running for loop
    min_x, min_y, min_z, max_x, max_y, max_z,   \* lines 21-22
    center_x, center_y, bottom_z, offset,       \* lines 40-47
    active,         \* view_layer.objects.active (0 = None)
    min_z_new, center_x_new, center_y_new, count,  \* lines 63-66
    exportCalls,    \* history: calls of export_scene.fbx
    exported,       \* the FBX file has been written
    copied,         \* texture files present in the export directory
    absent,         \* history: texture files os.path.exists found missing
    stdout,         \* lines printed from line 106 on
    error,          \* exception that ended the run ("none" if none)
    passes          \* harness: completed extra passes (always 0 in Spec)

vars == <<pc, objects, loaded, mesh_objects, i, min_x, min_y, min_z, max_x,
          max_y, max_z, center_x, center_y, bottom_z, offset, active,
          min_z_new, center_x_new, center_y_new, count, exportCalls,
          exported, copied, absent, stdout, error, passes>>

\* Largest number of objects in a loaded scene.
MaxObjs == 2

\* Largest number of extra passes the two harness specifications make.
MaxPasses == 1

-----------------------------------------------------------------------------
(* Floats *)

Fin(n) == [k |-> "fin", v |-> n]
PosInf == [k |-> "inf", v |-> 0]
NegInf == [k |-> "ninf", v |-> 0]
NaN    == [k |-> "nan", v |-> 0]

\* a < b on floats (every comparison with NaN is false)
FLess(a, b) ==
    CASE a.k = "nan" \/ b.k = "nan" -> FALSE
      [] a.k = "ninf" -> b.k # "ninf"
      [] a.k = "inf"  -> FALSE
      [] OTHER        -> b.k = "inf" \/ (b.k = "fin" /\ a.v < b.v)

\* PyMax with the comparison of PyMin pasted in
PyMaxAsMin(a, b) == IF FLess(b, a) THEN b ELSE a

\* Python's min(a, b) and max(a, b): the first argument unless the second
\* is strictly smaller (larger)
PyMin(a, b) == IF FLess(b, a) THEN b ELSE a
PyMax(a, b) == IF FLess(a, b) THEN b ELSE a

FAdd(a, b) ==
    CASE a.k = "nan" \/ b.k = "nan" -> NaN
      [] a.k = "fin" /\ b.k = "fin" -> Fin(a.v + b.v)
      [] a.k = "fin" -> b
      [] b.k = "fin" -> a
      [] a.k = b.k   -> a
      [] OTHER       -> NaN

\* FHalf with the division by two left out
FHalfForgotten(a) == a

FHalf(a) == IF a.k = "fin" THEN Fin(a.v \div 2) ELSE a

FNeg(a) ==
    CASE a.k = "fin"  -> Fin(0 - a.v)
      [] a.k = "inf"  -> NegInf
      [] a.k = "ninf" -> PosInf
      [] OTHER        -> NaN

-----------------------------------------------------------------------------
(* Vectors, matrices and objects *)

Dot(r, v) == r[1] * v[1] + r[2] * v[2] + r[3] * v[3]
MatVec(m, v) == <<Dot(m[1], v), Dot(m[2], v), Dot(m[3], v)>>
VecAdd(a, b) == <<a[1] + b[1], a[2] + b[2], a[3] + b[3]>>

Identity == <<<<1, 0, 0>>, <<0, 1, 0>>, <<0, 0, 1>>>>
\* uniform scale by 2
Scale2 == <<<<2, 0, 0>>, <<0, 2, 0>>, <<0, 0, 2>>>>
\* rotation by 45 degrees about X combined with a uniform scale by sqrt(2)
Rot45X == <<<<1, 0, 0>>, <<0, 1, -1>>, <<0, 1, 1>>>>

SetMin(S) == CHOOSE a \in S : \A b \in S : a <= b
SetMax(S) == CHOOSE a \in S : \A b \in S : a >= b

\* obj.bound_box: the 8 corners of the local axis-aligned box of the mesh
\* data, in the host's corner order
bound_box(obj) ==
    LET lo == [a \in 1..3 |-> SetMin({v[a] : v \in obj.verts})]
        hi == [a \in 1..3 |-> SetMax({v[a] : v \in obj.verts})]
    IN  << <<lo[1], lo[2], lo[3]>>, <<lo[1], lo[2], hi[3]>>,
           <<lo[1], hi[2], hi[3]>>, <<lo[1], hi[2], lo[3]>>,
           <<hi[1], lo[2], lo[3]>>, <<hi[1], lo[2], hi[3]>>,
           <<hi[1], hi[2], hi[3]>>, <<hi[1], hi[2], lo[3]>> >>

\* obj.matrix_world @ v
matrix_world(obj, v) == VecAdd(MatVec(obj.basis, v), obj.location)

\* world_corner of lines 27 and 69
world_corner(obj, c) == matrix_world(obj, bound_box(obj)[c])

-----------------------------------------------------------------------------
(* The scenes a run can load *)

\* unit cube centred on the local origin (spans -0.5 .. 0.5)
Cube == {<<x, y, z>> : x \in {-2, 2}, y \in {-2, 2}, z \in {-2, 2}}
\* a single slanted edge from (0, 1, 0) to (0, 0, 1)
Sliver == {<<0, 4, 0>>, <<0, 0, 4>>}

Locations == {<<40, 20, 8>>, <<-8, 4, -4>>}

MeshKinds ==
    [type : {"MESH"}, verts : {Cube, Sliver},
     basis : {Identity, Scale2, Rot45X}, location : Locations,
     select : {FALSE}]

\* an object that is not a mesh (it carries no mesh data), selected on load
Camera ==
    [type |-> "CAMERA", verts |-> {}, basis |-> Identity,
     location |-> <<0, 0, 0>>, select |-> TRUE]

Scenes == UNION {[1..n -> MeshKinds \cup {Camera}] : n \in 0..MaxObjs}

Unset == [k |-> "unset", v |-> 0]
Ratio(n, d) == [num |-> n, den |-> d]

\* line 111-118
texture_files ==
    << "TexturesCom_Branches0012_1_masked_S.png",
       "TexturesCom_PineBark2_1K_albedo.tif",
       "TexturesCom_PineBark2_1K_normal.tif",
       "TexturesCom_PineBark2_1K_ao.tif",
       "TexturesCom_PineBark2_1K_roughness.tif",
       "TexturesCom_PineBark2_1K_height.tif" >>

Line(m, f) == [msg |-> m, file |-> f]

Init ==
    /\ pc = "collect"
    /\ objects \in Scenes
    /\ loaded = objects
    /\ mesh_objects = <<>>
    /\ i = 1
    /\ min_x = Unset /\ min_y = Unset /\ min_z = Unset
    /\ max_x = Unset /\ max_y = Unset /\ max_z = Unset
    /\ center_x = Unset /\ center_y = Unset /\ bottom_z = Unset
    /\ offset = <<Unset, Unset, Unset>>
    /\ active = 0
    /\ min_z_new = Unset
    /\ center_x_new = Ratio(0, 1) /\ center_y_new = Ratio(0, 1)
    /\ count = 0
    /\ exportCalls = 0
    /\ exported = FALSE
    /\ copied = {}
    /\ absent = {}
    /\ stdout = <<>>
    /\ error = "none"
    /\ passes = 0

-----------------------------------------------------------------------------
(* The script, one action per statement group or loop iteration *)

RECURSIVE MeshIndices(_, _)
\* the indices k..Len(objs) of the objects of type MESH, in order
MeshIndices(objs, k) ==
    IF k > Len(objs) THEN <<>>
    ELSE IF objs[k].type = "MESH" THEN <<k>> \o MeshIndices(objs, k + 1)
    ELSE MeshIndices(objs, k + 1)

\* lines 13-18
Collect ==
    /\ pc = "collect"
    /\ mesh_objects' = MeshIndices(objects, 1)
    /\ pc' = "init"
    /\ UNCHANGED <<objects, loaded, i, min_x, min_y, min_z, max_x, max_y,
                   max_z, center_x, center_y, bottom_z, offset, active,
                   min_z_new, center_x_new, center_y_new, count, exportCalls,
                   exported, copied, absent, stdout, error, passes>>

\* lines 20-22
InitBounds ==
    /\ pc = "init"
    /\ min_x' = PosInf /\ min_y' = PosInf /\ min_z' = PosInf
    /\ max_x' = NegInf /\ max_y' = NegInf /\ max_z' = NegInf
    /\ i' = 1
    /\ pc' = "bounds"
    /\ UNCHANGED <<objects, loaded, mesh_objects, center_x, center_y,
                   bottom_z, offset, active, min_z_new, center_x_new,
                   center_y_new, count, exportCalls, exported, copied,
                   absent, stdout, error, passes>>

RECURSIVE ExtendBox(_, _, _)
\* lines 26-33: the inner loop over corners c..8 of one object
ExtendBox(box, obj, c) ==
    IF c > 8 THEN box
    ELSE LET w == world_corner(obj, c)
         IN  ExtendBox([min_x |-> PyMin(box.min_x, Fin(w[1])),
                        min_y |-> PyMin(box.min_y, Fin(w[2])),
                        min_z |-> PyMin(box.min_z, Fin(w[3])),
                        max_x |-> PyMax(box.max_x, Fin(w[1])),
                        max_y |-> PyMax(box.max_y, Fin(w[2])),
                        max_z |-> PyMax(box.max_z, Fin(w[3]))], obj, c + 1)

\* BoundsStep with the box of lines 21-22 started afresh for every object
BoundsStepPerObject ==
    /\ pc = "bounds"
    /\ i <= Len(mesh_objects)
    /\ LET box == ExtendBox([min_x |-> PosInf, min_y |-> PosInf,
                             min_z |-> PosInf, max_x |-> NegInf,
                             max_y |-> NegInf, max_z |-> NegInf],
                            objects[mesh_objects[i]], 1)
       IN  /\ min_x' = box.min_x /\ min_y' = box.min_y /\ min_z' = box.min_z
           /\ max_x' = box.max_x /\ max_y' = box.max_y /\ max_z' = box.max_z
    /\ i' = i + 1
    /\ UNCHANGED <<pc, objects, loaded, mesh_objects, center_x, center_y,
                   bottom_z, offset, active, min_z_new, center_x_new,
                   center_y_new, count, exportCalls, exported, copied,
                   absent, stdout, error, passes>>

\* lines 24-33: one iteration of the loop over mesh_objects
BoundsStep ==
    /\ pc = "bounds"
    /\ i <= Len(mesh_objects)
    /\ LET box == ExtendBox([min_x |-> min_x, min_y |-> min_y,
                             min_z |-> min_z, max_x |-> max_x,
                             max_y |-> max_y, max_z |-> max_z],
                            objects[mesh_objects[i]], 1)
       IN  /\ min_x' = box.min_x /\ min_y' = box.min_y /\ min_z' = box.min_z
           /\ max_x' = box.max_x /\ max_y' = box.max_y /\ max_z' = box.max_z
    /\ i' = i + 1
    /\ UNCHANGED <<pc, objects, loaded, mesh_objects, center_x, center_y,
                   bottom_z, offset, active, min_z_new, center_x_new,
                   center_y_new, count, exportCalls, exported, copied,
                   absent, stdout, error, passes>>

\* lines 35-48, entered when the loop of line 24 is exhausted
ComputeOffset ==
    /\ pc = "bounds"
    /\ i > Len(mesh_objects)
    /\ center_x' = FHalf(FAdd(min_x, max_x))
    /\ center_y' = FHalf(FAdd(min_y, max_y))
    /\ bottom_z' = min_z
    /\ offset' = <<FNeg(center_x'), FNeg(center_y'), FNeg(bottom_z')>>
    /\ i' = 1
    /\ pc' = "apply"
    /\ UNCHANGED <<objects, loaded, mesh_objects, min_x, min_y, min_z, max_x,
                   max_y, max_z, active, min_z_new, center_x_new,
                   center_y_new, count, exportCalls, exported, copied,
                   absent, stdout, error, passes>>

\* Moved with = in place of +=
MovedAssigned(obj, off) ==
    [obj EXCEPT !.location = <<off[1].v, off[2].v, off[3].v>>]

\* obj.location += offset (the offset is finite whenever an object exists)
Moved(obj, off) ==
    [obj EXCEPT !.location =
        <<@[1] + off[1].v, @[2] + off[2].v, @[3] + off[3].v>>]

\* lines 50-52: one iteration of the loop over mesh_objects
ApplyStep ==
    /\ pc = "apply"
    /\ i <= Len(mesh_objects)
    /\ objects' = [objects EXCEPT ![mesh_objects[i]] = Moved(@, offset)]
    /\ i' = i + 1
    /\ UNCHANGED <<pc, loaded, mesh_objects, min_x, min_y, min_z, max_x,
                   max_y, max_z, center_x, center_y, bottom_z, offset,
                   active, min_z_new, center_x_new, center_y_new, count,
                   exportCalls, exported, copied, absent, stdout, error,
                   passes>>

\* select_all(action='DESELECT') followed by select_set(True) on every mesh
\* object (lines 55-57 and 86-88)
SelectMeshes(objs, meshes) ==
    [k \in 1..Len(objs) |->
        [objs[k] EXCEPT !.select = \E j \in 1..Len(meshes) : meshes[j] = k]]

\* transform_apply(location, rotation, scale) on one object: the transform
\* is folded into the mesh data and reset to the identity
Baked(obj) ==
    [obj EXCEPT !.verts = {matrix_world(obj, v) : v \in obj.verts},
                !.basis = Identity,
                !.location = <<0, 0, 0>>]

\* TransformApply with the call of line 59 left out
TransformApplySkipped ==
    /\ pc = "apply"
    /\ i > Len(mesh_objects)
    /\ mesh_objects # <<>>
    /\ active' = mesh_objects[1]
    /\ objects' = SelectMeshes(objects, mesh_objects)
    /\ min_z_new' = PosInf
    /\ center_x_new' = Ratio(0, 1)
    /\ center_y_new' = Ratio(0, 1)
    /\ count' = 0
    /\ i' = 1
    /\ pc' = "verify"
    /\ UNCHANGED <<loaded, mesh_objects, min_x, min_y, min_z, max_x, max_y,
                   max_z, center_x, center_y, bottom_z, offset, exportCalls,
                   exported, copied, absent, stdout, error, passes>>

\* lines 54-66 with at least one mesh object
TransformApply ==
    /\ pc = "apply"
    /\ i > Len(mesh_objects)
    /\ mesh_objects # <<>>
    /\ active' = mesh_objects[1]
    /\ objects' = [k \in 1..Len(objects) |->
                     LET o == SelectMeshes(objects, mesh_objects)[k]
                     IN  IF o.select THEN Baked(o) ELSE o]
    /\ min_z_new' = PosInf
    /\ center_x_new' = Ratio(0, 1)
    /\ center_y_new' = Ratio(0, 1)
    /\ count' = 0
    /\ i' = 1
    /\ pc' = "verify"
    /\ UNCHANGED <<loaded, mesh_objects, min_x, min_y, min_z, max_x, max_y,
                   max_z, center_x, center_y, bottom_z, offset, exportCalls,
                   exported, copied, absent, stdout, error, passes>>

\* lines 54-58 with no mesh object: mesh_objects[0] raises IndexError after
\* select_all has run
TransformApplyEmpty ==
    /\ pc = "apply"
    /\ i > Len(mesh_objects)
    /\ mesh_objects = <<>>
    /\ objects' = SelectMeshes(objects, mesh_objects)
    /\ error' = "IndexError"
    /\ pc' = "failed"
    /\ UNCHANGED <<loaded, mesh_objects, i, min_x, min_y, min_z, max_x,
                   max_y, max_z, center_x, center_y, bottom_z, offset,
                   active, min_z_new, center_x_new, center_y_new, count,
                   exportCalls, exported, copied, absent, stdout,
                   passes>>

RECURSIVE Measure(_, _, _)
\* lines 68-73: the inner loop over corners c..8 of one object
Measure(acc, obj, c) ==
    IF c > 8 THEN acc
    ELSE LET w == world_corner(obj, c)
         IN  Measure([min_z |-> PyMin(acc.min_z, Fin(w[3])),
                      sum_x |-> acc.sum_x + w[1],
                      sum_y |-> acc.sum_y + w[2],
                      count |-> acc.count + 1], obj, c + 1)

\* lines 67-73: one iteration of the loop over mesh_objects
VerifyStep ==
    /\ pc = "verify"
    /\ i <= Len(mesh_objects)
    /\ LET acc == Measure([min_z |-> min_z_new, sum_x |-> center_x_new.num,
                           sum_y |-> center_y_new.num, count |-> count],
                          objects[mesh_objects[i]], 1)
       IN  /\ min_z_new' = acc.min_z
           /\ center_x_new' = Ratio(acc.sum_x, 1)
           /\ center_y_new' = Ratio(acc.sum_y, 1)
           /\ count' = acc.count
    /\ i' = i + 1
    /\ UNCHANGED <<pc, objects, loaded, mesh_objects, min_x, min_y, min_z,
                   max_x, max_y, max_z, center_x, center_y, bottom_z, offset,
                   active, exportCalls, exported, copied, absent, stdout,
                   error, passes>>

\* lines 75-88, entered when the loop of line 67 is exhausted
VerifyDone ==
    /\ pc = "verify"
    /\ i > Len(mesh_objects)
    /\ center_x_new' = Ratio(center_x_new.num, center_x_new.den * count)
    /\ center_y_new' = Ratio(center_y_new.num, center_y_new.den * count)
    /\ objects' = SelectMeshes(objects, mesh_objects)
    /\ pc' = "export"
    /\ UNCHANGED <<loaded, mesh_objects, i, min_x, min_y, min_z, max_x,
                   max_y, max_z, center_x, center_y, bottom_z, offset,
                   active, min_z_new, count, exportCalls, exported, copied,
                   absent, stdout, error, passes>>

\* lines 90-106 when the exporter succeeds
ExportOk ==
    /\ pc = "export"
    /\ exportCalls' = exportCalls + 1
    /\ exported' = TRUE
    /\ stdout' = Append(stdout, Line("Exported", "OakTree.fbx"))
    /\ i' = 1
    /\ pc' = "copy"
    /\ UNCHANGED <<objects, loaded, mesh_objects, min_x, min_y, min_z, max_x,
                   max_y, max_z, center_x, center_y, bottom_z, offset,
                   active, min_z_new, center_x_new, center_y_new, count,
                   copied, absent, error, passes>>

\* ExportFails with the exception caught and the run carried on
ExportFailsSwallowed ==
    /\ pc = "export"
    /\ exportCalls' = exportCalls + 1
    /\ error' = "ExportFailure"
    /\ i' = 1
    /\ pc' = "copy"
    /\ UNCHANGED <<objects, loaded, mesh_objects, min_x, min_y, min_z,
                   max_x, max_y, max_z, center_x, center_y, bottom_z, offset,
                   active, min_z_new, center_x_new, center_y_new, count,
                   exported, copied, absent, stdout, passes>>

\* lines 90-104 when the exporter raises: nothing catches the exception
ExportFails ==
    /\ pc = "export"
    /\ exportCalls' = exportCalls + 1
    /\ error' = "ExportFailure"
    /\ pc' = "failed"
    /\ UNCHANGED <<objects, loaded, mesh_objects, i, min_x, min_y, min_z,
                   max_x, max_y, max_z, center_x, center_y, bottom_z, offset,
                   active, min_z_new, center_x_new, center_y_new, count,
                   exported, copied, absent, stdout, passes>>

\* CopyStep without the test of line 123: copy2 raises on a missing file
CopyStepUnchecked ==
    /\ pc = "copy"
    /\ i <= Len(texture_files)
    /\ \E exists \in BOOLEAN :
          IF exists
          THEN /\ copied' = copied \cup {texture_files[i]}
               /\ stdout' = Append(stdout, Line("Copied", texture_files[i]))
               /\ i' = i + 1
               /\ UNCHANGED <<pc, absent, error>>
          ELSE /\ absent' = absent \cup {texture_files[i]}
               /\ error' = "FileNotFoundError"
               /\ pc' = "failed"
               /\ UNCHANGED <<copied, stdout, i>>
    /\ UNCHANGED <<objects, loaded, mesh_objects, min_x, min_y, min_z,
                   max_x, max_y, max_z, center_x, center_y, bottom_z, offset,
                   active, min_z_new, center_x_new, center_y_new, count,
                   exportCalls, exported, passes>>

\* lines 120-125: one iteration; os.path.exists answers either way
CopyStep ==
    /\ pc = "copy"
    /\ i <= Len(texture_files)
    /\ \E exists \in BOOLEAN :
          IF exists
          THEN /\ copied' = copied \cup {texture_files[i]}
               /\ stdout' = Append(stdout, Line("Copied", texture_files[i]))
               /\ absent' = absent
          ELSE /\ absent' = absent \cup {texture_files[i]}
               /\ UNCHANGED <<copied, stdout>>
    /\ i' = i + 1
    /\ UNCHANGED <<pc, objects, loaded, mesh_objects, min_x, min_y, min_z,
                   max_x, max_y, max_z, center_x, center_y, bottom_z, offset,
                   active, min_z_new, center_x_new, center_y_new, count,
                   exportCalls, exported, error, passes>>

\* line 127, entered when the loop of line 120 is exhausted
Finish ==
    /\ pc = "copy"
    /\ i > Len(texture_files)
    /\ stdout' = Append(stdout, Line("Done", ""))
    /\ pc' = "done"
    /\ UNCHANGED <<objects, loaded, mesh_objects, i, min_x, min_y, min_z,
                   max_x, max_y, max_z, center_x, center_y, bottom_z, offset,
                   active, min_z_new, center_x_new, center_y_new, count,
                   exportCalls, exported, copied, absent, error, passes>>

Next ==
    \/ Collect
    \/ InitBounds
    \/ BoundsStep
    \/ ComputeOffset
    \/ ApplyStep
    \/ TransformApply
    \/ TransformApplyEmpty
    \/ VerifyStep
    \/ VerifyDone
    \/ ExportOk
    \/ ExportFails
    \/ CopyStep
    \/ Finish

Spec == Init /\ [][Next]_vars

-----------------------------------------------------------------------------
(* Harnesses: the recentring steps (lines 13-52) run again on the scene    *)
(* they left, to state what a repeated application does.                   *)

\* the loop of lines 50-52 run once more with the offset already computed
Reapply ==
    /\ pc = "apply"
    /\ i > Len(mesh_objects)
    /\ passes < MaxPasses
    /\ passes' = passes + 1
    /\ i' = 1
    /\ UNCHANGED <<pc, objects, loaded, mesh_objects, min_x, min_y, min_z,
                   max_x, max_y, max_z, center_x, center_y, bottom_z, offset,
                   active, min_z_new, center_x_new, center_y_new, count,
                   exportCalls, exported, copied, absent, stdout, error>>

\* lines 20-52 run once more: bounds and offset are computed afresh
Repass ==
    /\ pc = "apply"
    /\ i > Len(mesh_objects)
    /\ passes < MaxPasses
    /\ passes' = passes + 1
    /\ pc' = "init"
    /\ UNCHANGED <<objects, loaded, mesh_objects, i, min_x, min_y, min_z,
                   max_x, max_y, max_z, center_x, center_y, bottom_z, offset,
                   active, min_z_new, center_x_new, center_y_new, count,
                   exportCalls, exported, copied, absent, stdout, error>>

Recenter == Collect \/ InitBounds \/ BoundsStep \/ ComputeOffset \/ ApplyStep

NextTwice == Recenter \/ Reapply
SpecTwice == Init /\ [][NextTwice]_vars

NextRepass == Recenter \/ Repass
SpecRepass == Init /\ [][NextRepass]_vars

-----------------------------------------------------------------------------
(* Reference definitions for the properties *)

\* every world-space box corner of the mesh objects of objs
Corners(objs, meshes) ==
    {world_corner(objs[meshes[j]], c) : j \in 1..Len(meshes), c \in 1..8}

Lo(S, a) == SetMin({w[a] : w \in S})
Hi(S, a) == SetMax({w[a] : w \in S})

Zero3 == <<Fin(0), Fin(0), Fin(0)>>
NonEmpty == mesh_objects # <<>>
BoundsComplete == pc = "bounds" /\ i > Len(mesh_objects)
ApplyComplete == pc = "apply" /\ i > Len(mesh_objects)
Files == {texture_files[j] : j \in 1..Len(texture_files)}

\* the halving of lines 40-41 is exact on every scene of the model
HalvingExact ==
    (BoundsComplete /\ NonEmpty) =>
        /\ (min_x.v + max_x.v) % 2 = 0
        /\ (min_y.v + max_y.v) % 2 = 0

\* every float that line 52 adds to a location is finite
OffsetFinite ==
    (pc = "apply" /\ NonEmpty) => \A a \in 1..3 : offset[a].k = "fin"

-----------------------------------------------------------------------------
(* Properties *)

\* no loaded object is rotated: the bake leaves every world box as it was
Unrotated == \A k \in 1..Len(loaded) : loaded[k].basis # Rot45X

\* C1: once the verification pass has run, the mean X and the mean Y over
\* all world-space box corners of all mesh objects are zero (stated for the
\* scenes without rotation, where it already fails).
CentroidZero ==
    (pc = "export" /\ Unrotated) =>
        center_x_new.num = 0 /\ center_y_new.num = 0

\* C2: once the verification pass has run, the minimum Z over all
\* re-evaluated world-space box corners of all mesh objects is zero.
BottomZero ==
    pc = "export" => min_z_new = Fin(0)

\* C3: with no mesh object the run fails with EmptyInputError in the bounds
\* computation: no offset is ever computed and no scene state changes.
EmptyInputRejected ==
    (pc # "collect" /\ mesh_objects = <<>>) =>
        /\ pc \in {"init", "bounds", "failed"}
        /\ pc = "failed" => error = "EmptyInputError"
        /\ offset = <<Unset, Unset, Unset>>
        /\ objects = loaded
        /\ active = 0

UnionBoundsTight ==
    (BoundsComplete /\ NonEmpty) =>
        LET S == Corners(objects, mesh_objects)
            lo == <<min_x, min_y, min_z>>
            hi == <<max_x, max_y, max_z>>
        IN  \A a \in 1..3 :
              /\ lo[a].k = "fin" /\ hi[a].k = "fin"
              /\ \A w \in S : lo[a].v <= w[a] /\ w[a] <= hi[a].v
              /\ \E w \in S : w[a] = lo[a].v
              /\ \E w \in S : w[a] = hi[a].v
              /\ lo[a].v <= hi[a].v

\* C5 witness: the bounds of two mesh objects whose world boxes are
\* disjoint along Y are complete
UnionBoundsTightSeen ==
    /\ BoundsComplete
    /\ Len(mesh_objects) = 2
    /\ Hi(Corners(objects, <<mesh_objects[1]>>), 2)
         < Lo(Corners(objects, <<mesh_objects[2]>>), 2)

\* the scenario of C6: one unit cube translated to (10, 5, 2)
UnitCubeScene ==
    << [type |-> "MESH", verts |-> Cube, basis |-> Identity,
        location |-> <<40, 20, 8>>, select |-> FALSE] >>

\* the offset of line 47 stands and the loop of lines 50-52 is running or over
OffsetComputed == pc = "apply"

\* C6: the offset is (-(min.x+max.x)/2, -(min.y+max.y)/2, -min.z) of the
\* union box of the loaded objects; for one unit cube at (10, 5, 2) the
\* union box is (9.5, 4.5, 1.5)..(10.5, 5.5, 2.5), the offset (-10, -5, -1.5)
\* and the box after applying it (-0.5, -0.5, 0)..(0.5, 0.5, 1).
OffsetRule ==
    /\ (OffsetComputed /\ NonEmpty) =>
          LET S == Corners(loaded, mesh_objects)
          IN  /\ \A a \in 1..3 : offset[a].k = "fin"
              /\ 2 * offset[1].v = 0 - (Lo(S, 1) + Hi(S, 1))
              /\ 2 * offset[2].v = 0 - (Lo(S, 2) + Hi(S, 2))
              /\ offset[3].v = 0 - Lo(S, 3)
    /\ (OffsetComputed /\ loaded = UnitCubeScene) =>
          /\ <<min_x, min_y, min_z>> = <<Fin(38), Fin(18), Fin(6)>>
          /\ <<max_x, max_y, max_z>> = <<Fin(42), Fin(22), Fin(10)>>
          /\ offset = <<Fin(-40), Fin(-20), Fin(-6)>>
    /\ ((ApplyComplete \/ pc = "verify") /\ loaded = UnitCubeScene) =>
          LET S == Corners(objects, mesh_objects)
          IN  /\ <<Lo(S, 1), Lo(S, 2), Lo(S, 3)>> = <<-2, -2, 0>>
              /\ <<Hi(S, 1), Hi(S, 2), Hi(S, 3)>> = <<2, 2, 4>>

\* C6 witness: the unit cube scene with its offset applied
OffsetRuleSeen == loaded = UnitCubeScene /\ ApplyComplete

\* what one iteration of the loop of lines 50-52 may change: the location
\* of the object it visits, by the offset
ApplyFrame ==
    (pc = "apply" /\ i' = i + 1) =>
        /\ Len(objects') = Len(objects)
        /\ \A k \in 1..Len(objects) :
              IF k = mesh_objects[i]
              THEN /\ objects'[k] =
                         [objects[k] EXCEPT !.location = objects'[k].location]
                   /\ \A a \in 1..3 :
                         objects'[k].location[a] =
                             objects[k].location[a] + offset[a].v
              ELSE objects'[k] = objects[k]
        /\ UNCHANGED <<mesh_objects, offset, loaded>>

\* C7: the apply loop adds the same offset to the location of every mesh
\* object once and changes nothing else; run again with the same offset it
\* leaves every object translated by twice the offset.
ApplyAddsOffset ==
    /\ [](ApplyComplete =>
            /\ Len(objects) = Len(loaded)
            /\ \A k \in 1..Len(objects) :
                  IF \E j \in 1..Len(mesh_objects) : mesh_objects[j] = k
                  THEN /\ objects[k] =
                           [loaded[k] EXCEPT !.location = objects[k].location]
                       /\ \A a \in 1..3 :
                             objects[k].location[a] =
                                 loaded[k].location[a]
                                   + (passes + 1) * offset[a].v
                  ELSE objects[k] = loaded[k])
    /\ [][ApplyFrame]_vars

\* C7 witness: a non-zero offset has been applied twice to two objects
ApplyAddsOffsetSeen ==
    /\ ApplyComplete
    /\ passes = 1
    /\ Len(mesh_objects) = 2
    /\ offset[1].v # 0 /\ offset[3].v # 0

Rank(p) ==
    CASE p = "collect" -> 1
      [] p = "init"    -> 2
      [] p = "bounds"  -> 3
      [] p = "apply"   -> 4
      [] p = "verify"  -> 5
      [] p = "export"  -> 6
      [] p = "copy"    -> 7
      [] p = "done"    -> 8
      [] OTHER         -> 9

\* objects[k] is loaded[k] moved by the offset and baked
MovedAndBaked(k) ==
    /\ objects[k].basis = Identity
    /\ objects[k].location = <<0, 0, 0>>
    /\ objects[k].verts =
          {VecAdd(matrix_world(loaded[k], v),
                  <<offset[1].v, offset[2].v, offset[3].v>>) :
             v \in loaded[k].verts}

\* C8: the steps run in the fixed order collect, bounds, offset, apply,
\* bake, verify, export, copy: no object changes before the union bounds
\* are complete, the export never starts before every mesh object has been
\* moved by the offset and baked, and no texture is looked at or copied
\* before the export has returned.
StepOrder ==
    /\ []((pc \in {"collect", "init", "bounds"}) => objects = loaded)
    /\ []((pc = "export" \/ exportCalls > 0) =>
            \A j \in 1..Len(mesh_objects) : MovedAndBaked(mesh_objects[j]))
    /\ []((pc \in {"copy", "done"} \/ copied # {} \/ absent # {}) =>
            exported /\ exportCalls = 1)
    /\ [][pc' = pc \/ Rank(pc') = Rank(pc) + 1 \/ pc' = "failed"]_vars

\* C8 witness: a run over two mesh objects has finished with a texture
\* copied
StepOrderSeen ==
    pc = "done" /\ Len(mesh_objects) = 2 /\ copied # {}

\* C9: a failing exporter ends the run at the export step: the export was
\* attempted exactly once, nothing was written, printed or copied, and no
\* step follows the failure.
ExportFailureFatal ==
    /\ [](error = "ExportFailure" =>
            /\ pc = "failed"
            /\ exportCalls = 1
            /\ ~exported
            /\ copied = {} /\ absent = {}
            /\ stdout = <<>>)
    /\ [](exportCalls <= 1)
    /\ [][pc # "failed"]_vars

\* C9 witness: the exporter has failed
ExportFailureFatalSeen ==
    error = "ExportFailure" /\ pc = "failed" /\ NonEmpty

\* C10: after one bounds / offset / apply pass over a non-empty set of
\* objects the union box has X midpoint 0, Y midpoint 0 and minimum Z 0, so
\* a further pass computes the zero offset and changes no object.
RecenterIdempotent ==
    /\ []((ApplyComplete /\ NonEmpty) =>
            LET S == Corners(objects, mesh_objects)
            IN  /\ Lo(S, 1) + Hi(S, 1) = 0
                /\ Lo(S, 2) + Hi(S, 2) = 0
                /\ Lo(S, 3) = 0)
    /\ []((passes >= 1 /\ pc = "apply" /\ NonEmpty) => offset = Zero3)
    /\ [][(passes >= 1 /\ passes' = passes) => objects' = objects]_vars

\* C10 witness: a second pass has run over two objects whose loaded world
\* boxes are disjoint along X
RecenterIdempotentSeen ==
    /\ ApplyComplete
    /\ passes = 1
    /\ Len(mesh_objects) = 2
    /\ Hi(Corners(loaded, <<mesh_objects[1]>>), 1)
         < Lo(Corners(loaded, <<mesh_objects[2]>>), 1)

====
